---- MODULE Spec2Model ----
(***************************************************************************)
(* State-machine model of the two agent graphs of the internet search      *)
(* agent: the simple graph (src/graphs/simple_search_agent.py) and the     *)
(* report graph (src/graphs/workflow_agent.py), run repeatedly on one      *)
(* persisted thread (src/routes/chat_route.py).                            *)
(*                                                                         *)
(* `state` is the thread's graph state: a record whose domain is the set   *)
(* of fields that have been written so far ("messages" always exists, the  *)
(* other fields exist from their first write on).  A node handler is an    *)
(* operator from the state and the answers of the external services to    *)
(* the partial update it returns; Merge applies the update.                *)
(***************************************************************************)
EXTENDS Integers, Sequences, FiniteSets, TLC

\* ------------------------------------------------------------------ bounds
MaxRuns    == 2   \* runs started on the thread
MaxOutline == 2   \* sections of a planned outline
MaxResults == 2   \* raw items of one search response
MaxHistory  == 3   \* snapshots in a raw state history
MaxMessages == 3   \* messages a thread has accumulated
MaxTasks    == 2   \* tasks of a thread's latest snapshot
MaxRequests == 2   \* chat requests the server receives
MaxThreads  == 1   \* threads that clients name in their requests

\* ------------------------------------------------------- program constants
max_retries == 2

\* the agent used when a request names none
DEFAULT_AGENT == "simple-search"

NoneValue == "<None>"

VARIABLES
    agent,         \* graph the thread is run with: "simple" or "workflow"
    status,        \* "idle", "running", "done" or "aborted"
    pc,            \* node to execute next ("end" after the terminal edge)
    state,         \* the persisted graph state of the thread
    run,           \* number of runs started on the thread
    trace,         \* nodes visited by the current run, "start" first
    msgs0,         \* messages at the start of the current run
    planned,       \* outline returned by plan_outline in the current run
    drafts_done,   \* draft_section steps completed in the current run
    search_calls,  \* search-service calls of the latest search node invocation,
                   \* until its results are cleared
    all_nogood,    \* every response of that invocation was empty or sentinel
    run_calls,     \* search-service calls of the current run
    results_read,  \* search_results read by the latest generate_answer
    last_search,   \* the latest search node invocation, until its results
                   \* are cleared: the response it used, the crawl outcomes,
                   \* the response of its last search call, whether every
                   \* call before that one returned nothing usable, the
                   \* completion calls it made and its retry prompts
    report_input,  \* section_drafts the latest compile_report joined
    last_delta,    \* the partial update merged last: a run's input or the
                   \* delta the latest completed node returned
    failed_call,   \* an external call of the current run raised
    raw_history,   \* snapshots handed to parse_state_history, newest first
    parsed,        \* the ParsedStateHistory it returned
    parser_pc,     \* "idle", "called" or "returned"
    request,       \* the chat request being handled
    req_pc,        \* position of its handler
    req_out,       \* what the handler has produced so far
    store,         \* checkpoint store: latest state of every thread
    runs,          \* the runs the server has accepted, by arrival
    interleaved    \* a run wrote a thread between two writes of another run

graph_vars == <<agent, status, pc, state, run, trace, msgs0, planned,
                drafts_done, search_calls, all_nogood, run_calls, results_read,
                last_search, report_input, last_delta, failed_call>>

parser_vars == <<raw_history, parsed, parser_pc>>

request_vars == <<request, req_pc, req_out>>

server_vars == <<store, runs, interleaved>>

vars == <<graph_vars, parser_vars, request_vars, server_vars>>

\* ---------------------------------------------------------------- helpers
Has(s, k) == k \in DOMAIN s

Get(s, k, default) == IF Has(s, k) THEN s[k] ELSE default

Last(q) == q[Len(q)]

IsPrefix(p, q) == Len(p) <= Len(q) /\ SubSeq(q, 1, Len(p)) = p
Merge_stale(s, delta) ==
    [k \in DOMAIN s \cup DOMAIN delta |->
        IF k \notin DOMAIN delta THEN s[k]
        ELSE IF k = "messages" THEN s[k] \o delta[k]
        ELSE IF k \in DOMAIN s THEN s[k]
        ELSE delta[k]]

Merge_mut(s, delta) ==
    [k \in DOMAIN s \cup DOMAIN delta |->
        IF k \notin DOMAIN delta THEN s[k] ELSE delta[k]]

\* the executor merges a node's partial update: messages are appended, every
\* other named field is replaced, unnamed fields are kept
Merge(s, delta) ==
    [k \in DOMAIN s \cup DOMAIN delta |->
        IF k \notin DOMAIN delta THEN s[k]
        ELSE IF k = "messages" THEN s[k] \o delta[k]
        ELSE delta[k]]

\* a message; its content is a text followed by the section texts it carries
HumanMessage == [type |-> "human", content |-> [text |-> "question", sections |-> <<>>]]

AIMessage(c) == [type |-> "ai", content |-> c]

\* what the completion service can answer to a conversation
AnswerReplies == { [text |-> "answer", sections |-> <<>>] }

\* what the completion service can answer to the report editor prompt built
\* from the joined drafts: an introduction followed by the drafts unchanged,
\* or by the drafts without the last one
ReportReplies(drafts) ==
    { [text |-> "introduction", sections |-> d] :
        d \in {drafts, SubSeq(drafts, 1, Len(drafts) - 1)} }

\* ------------------------------------------------------- external services
\* the i-th raw item of a search response; the third one carries no link
RawItem(i) ==
    [snippet |-> "snippet" \o ToString(i),
     link    |-> IF i = 3 THEN "" ELSE "https://example.com/" \o ToString(i),
     name    |-> "name" \o ToString(i)]

\* the raw result lists: 0..MaxResults items, told apart by their position
RawLists == { [i \in 1..n |-> RawItem(i)] : n \in 0..MaxResults }

Responses ==
    { [kind |-> "list", items |-> l] : l \in RawLists }
        \cup { [kind |-> "sentinel", items |-> <<>>],
               [kind |-> "raise",    items |-> <<>>] }

\* no search call was made
NoResponse == [kind |-> "none", items |-> <<>>]

NoSearch ==
    [resp |-> NoResponse, crawl |-> <<>>, attempt |-> NoResponse,
     earlier_nogood |-> TRUE, completions |-> 0, prompts |-> <<>>]

\* what one call of the page-content-fetch service can do
CrawlOutcomes ==
    {"ok", "unsuccessful", "network_error", "invalid_response", "unexpected_error"}

\* the outlines the planner can return: 0..MaxOutline titles, told apart by
\* their position
Outlines == { [i \in 1..n |-> "Section " \o ToString(i)] : n \in 0..MaxOutline }

\* ---------------------------------------------------- shared node handlers
decide_search(s, decision) == [should_search |-> decision]

\* ------------------------------------------------- simple graph: handlers
BingSearchResult(b, h, t, i, c) ==
    [body |-> b, href |-> h, title |-> t, index |-> i, content |-> c]

SimplePlaceholder ==
    BingSearchResult("No search results found", "", "No Results", 1, NoneValue)
simple_normalize_mut(items) ==
    [i \in 1..Len(items) |->
        BingSearchResult(Get(items[i], "snippet", ""), Get(items[i], "link", ""),
            Get(items[i], "name", ""), i - 1, NoneValue)]

simple_normalize(items) ==
    [i \in 1..Len(items) |->
        BingSearchResult(Get(items[i], "snippet", ""), Get(items[i], "link", ""),
            Get(items[i], "name", ""), i, NoneValue)]
run_search_mut(s, resp) ==
    IF resp.kind = "raise" THEN [raised |-> TRUE, delta |-> <<>>]
    ELSE IF resp.kind = "sentinel" THEN [raised |-> TRUE, delta |-> <<>>]
    ELSE [raised |-> FALSE, delta |-> [search_results |-> simple_normalize(resp.items)]]

\* run_search: one search call; an empty list gives the placeholder, a list
\* is normalized, and the sentinel mapping is iterated as if it were a list
\* of items, which raises
run_search(s, resp) ==
    IF resp.kind = "raise" THEN [raised |-> TRUE, delta |-> <<>>]
    ELSE IF resp.kind = "list" /\ resp.items = <<>>
        THEN [raised |-> FALSE, delta |-> [search_results |-> <<SimplePlaceholder>>]]
    ELSE IF resp.kind = "sentinel" THEN [raised |-> TRUE, delta |-> <<>>]
    ELSE [raised |-> FALSE, delta |-> [search_results |-> simple_normalize(resp.items)]]

run_search_calls_retry(resp) ==
    IF resp.kind = "list" /\ resp.items = <<>>
    THEN [completion |-> 2, search |-> 2]
    ELSE [completion |-> 1, search |-> 1]

\* the external calls of one run_search invocation that gets the response
\* resp: the query is formulated by one completion call and sent in one
\* search call, ahead of every branch on the response
run_search_calls(resp) == [completion |-> 1, search |-> 1]

simple_generate_answer(s, reply) ==
    [messages |-> <<reply>>, search_results |-> <<>>]

simple_route_after_decision_mut(s) ==
    IF s.should_search THEN "generate_answer" ELSE "run_search"

simple_route_after_decision(s) ==
    IF s.should_search THEN "run_search" ELSE "generate_answer"

simple_next(node, s) ==
    CASE node = "decide_search"   -> simple_route_after_decision(s)
      [] node = "run_search"      -> "generate_answer"
      [] node = "generate_answer" -> "end"

\* ------------------------------------------------- report graph: handlers
plan_outline_mut(s, o) ==
    [outline |-> o, current_idx |-> Get(s, "current_idx", 0)]

plan_outline(s, o) == [outline |-> o, current_idx |-> 0]

_crawl_single_url_null(url, outcome) ==
    IF url = "" THEN ""
    ELSE IF outcome = "ok" THEN "markdown" ELSE NoneValue

_crawl_single_url_mut(url, outcome) ==
    IF url = "" THEN ""
    ELSE CASE outcome = "ok"               -> "markdown"
           [] outcome = "unsuccessful"     -> ""
           [] outcome = "network_error"    -> ""
           [] outcome = "invalid_response" -> "Failed to crawl content: Invalid response format"
           [] outcome = "unexpected_error" -> "Failed to crawl content: Unexpected error"

_crawl_single_url(url, outcome) ==
    IF url = "" THEN ""
    ELSE CASE outcome = "ok"               -> "markdown"
           [] outcome = "unsuccessful"     -> ""
           [] outcome = "network_error"    -> "Failed to crawl content: Network error"
           [] outcome = "invalid_response" -> "Failed to crawl content: Invalid response format"
           [] outcome = "unexpected_error" -> "Failed to crawl content: Unexpected error"

_sync_crawl_urls(results_list, crawl) ==
    [i \in 1..Len(results_list) |->
        LET url == Get(results_list[i], "link", "") IN
        BingSearchResult(Get(results_list[i], "snippet", ""), url,
            Get(results_list[i], "title", ""), i,
            IF url # "" THEN _crawl_single_url(url, crawl[i]) ELSE "")]

SectionPlaceholder ==
    BingSearchResult("No search results found after retry", "", "No Results", 1,
        "No content could be found for this section. The section will be drafted using general knowledge.")

NoGood(results_list) ==
    \/ results_list.kind = "list" /\ results_list.items = <<>>
    \/ results_list.kind = "sentinel"
ShouldRetry_any(retry_count, results_list) ==
    retry_count < max_retries

ShouldRetry_mut(retry_count, results_list) ==
    retry_count < max_retries - 1 /\ NoGood(results_list)

ShouldRetry(retry_count, results_list) ==
    retry_count < max_retries /\ NoGood(results_list)

\* the retry loop of search_section; oracle[k] is the k-th response of the
\* search service; a raising call leaves the loop (and the node)
RECURSIVE retry_loop(_, _, _)
retry_loop(oracle, retry_count, results_list) ==
    IF results_list.kind # "raise" /\ ShouldRetry(retry_count, results_list)
    THEN retry_loop(oracle, retry_count + 1, oracle[retry_count + 2])
    ELSE [results_list |-> results_list, retry_count |-> retry_count]

\* the query the completion service formulates: the original one of a
\* search_section invocation (k = 0) or the one of its k-th retry
SearchQuery(k) == "query " \o ToString(k)

retry_prompts_mut(retries) ==
    [k \in 1..retries |->
        [retry_attempt |-> k, of |-> max_retries, previous_query |-> SearchQuery(0)]]

\* the prompts search_section builds in `retries` passes of its retry loop:
\* each carries retry_count + 1 and search_query, which the pass then
\* replaces by the query formulated from the prompt
RECURSIVE retry_prompts_from(_, _, _, _)
retry_prompts_from(retries, retry_count, search_query, prompts) ==
    IF retry_count < retries
    THEN retry_prompts_from(retries, retry_count + 1, SearchQuery(retry_count + 1),
            Append(prompts, [retry_attempt   |-> retry_count + 1,
                             of              |-> max_retries,
                             previous_query  |-> search_query]))
    ELSE prompts

retry_prompts(retries) == retry_prompts_from(retries, 0, SearchQuery(0), <<>>)

search_section_carry(s, oracle, crawl) ==
    IF s.current_idx >= Len(s.outline)
    THEN [raised |-> TRUE, calls |-> 0, resp |-> NoResponse, delta |-> <<>>]
    ELSE LET spent  == run_calls - s.current_idx
             budget == IF spent >= max_retries THEN 0 ELSE max_retries - spent
             stops  == { k \in 1..(1 + budget) :
                           \/ k = 1 + budget
                           \/ oracle[k].kind = "raise"
                           \/ ~NoGood(oracle[k]) }
             n      == CHOOSE k \in stops : \A j \in stops : k <= j
             resp   == oracle[n]
         IN  IF resp.kind = "raise"
             THEN [raised |-> TRUE, calls |-> n, resp |-> resp, delta |-> <<>>]
             ELSE IF NoGood(resp)
             THEN [raised |-> FALSE, calls |-> n, resp |-> resp,
                   delta |-> [search_results |-> <<SectionPlaceholder>>]]
             ELSE [raised |-> FALSE, calls |-> n, resp |-> resp,
                   delta |-> [search_results |-> _sync_crawl_urls(resp.items, crawl)]]

search_section(s, oracle, crawl) ==
    IF s.current_idx >= Len(s.outline)
    THEN [raised |-> TRUE, calls |-> 0, resp |-> NoResponse, delta |-> <<>>]
    ELSE LET r == retry_loop(oracle, 0, oracle[1]) IN
         IF r.results_list.kind = "raise"
         THEN [raised |-> TRUE, calls |-> r.retry_count + 1,
               resp |-> r.results_list, delta |-> <<>>]
         ELSE IF NoGood(r.results_list)
         THEN [raised |-> FALSE, calls |-> r.retry_count + 1,
               resp |-> r.results_list,
               delta |-> [search_results |-> <<SectionPlaceholder>>]]
         ELSE [raised |-> FALSE, calls |-> r.retry_count + 1,
               resp |-> r.results_list,
               delta |-> [search_results |-> _sync_crawl_urls(r.results_list.items, crawl)]]

draft_section(s, draft) ==
    IF Has(s, "section_drafts")
    THEN [section_drafts |-> Append(s.section_drafts, draft)]
    ELSE [section_drafts |-> <<draft>>]

advance_index_mut(s) == [current_idx |-> s.current_idx + 1]

advance_index(s) ==
    [current_idx |-> s.current_idx + 1, search_results |-> <<>>]

should_continue_mut(s) ==
    IF s.current_idx < Len(s.outline) THEN "continue" ELSE "finish"

should_continue(s) ==
    LET next_idx == s.current_idx + 1 IN
    IF next_idx < Len(s.outline) THEN "continue" ELSE "finish"
compile_report_mut(s, reply) ==
    [messages |-> <<reply>>, search_results |-> <<>>, outline |-> <<>>,
     current_idx |-> 0]

compile_report(s, reply) ==
    [messages |-> <<reply>>, search_results |-> <<>>, outline |-> <<>>,
     current_idx |-> 0, section_drafts |-> <<>>]
workflow_generate_answer_mut(s, reply) ==
    [messages |-> <<reply>>, search_results |-> <<>>]

workflow_generate_answer(s, reply) ==
    [messages |-> <<reply>>, search_results |-> <<>>, outline |-> <<>>,
     current_idx |-> 0, section_drafts |-> <<>>]

workflow_route_after_decision_mut(s) == "plan_outline"

workflow_route_after_decision(s) ==
    IF s.should_search THEN "plan_outline" ELSE "generate_answer"

workflow_next_mut(node, s) ==
    CASE node = "decide_search"   -> workflow_route_after_decision(s)
      [] node = "plan_outline"    -> "search_section"
      [] node = "search_section"  -> "draft_section"
      [] node = "draft_section"   ->
            IF should_continue(s) = "continue" THEN "advance_index"
            ELSE "compile_report"
      [] node = "advance_index"   -> "draft_section"
      [] node = "compile_report"  -> "end"
      [] node = "generate_answer" -> "end"

workflow_next(node, s) ==
    CASE node = "decide_search"   -> workflow_route_after_decision(s)
      [] node = "plan_outline"    -> "search_section"
      [] node = "search_section"  -> "draft_section"
      [] node = "draft_section"   ->
            IF should_continue(s) = "continue" THEN "advance_index"
            ELSE "compile_report"
      [] node = "advance_index"   -> "search_section"
      [] node = "compile_report"  -> "end"
      [] node = "generate_answer" -> "end"

NextNode(node, s) ==
    IF agent = "simple" THEN simple_next(node, s) ELSE workflow_next(node, s)

\* ------------------------------------------- state history: the raw input
\* a Python value that is a dict, or one that is some other object
Mapping(f) == [shape |-> "mapping", fields |-> f]

Opaque(f) == [shape |-> "object", fields |-> f]

isinstance_dict(v) == v.shape = "mapping"

\* the i-th message of a thread, by the way it is serialized: a mapping of
\* type human, ai, tool or custom, a mapping without a type key, or a
\* message object that is not a mapping
MsgKinds == {"human", "ai", "tool", "custom", "untyped", "object"}

RawMessage(kind, i) ==
    LET c  == "text " \o ToString(i)
        id == "msg-" \o ToString(i)
    IN  CASE kind = "untyped" -> Mapping([content |-> c, id |-> id])
          [] kind = "object"  -> Opaque([content |-> c, type |-> "human", id |-> id])
          [] OTHER            -> Mapping([content |-> c, type |-> kind, id |-> id])

\* the kinds of the messages a thread has accumulated, oldest first; the
\* first message of a thread is the human message of its first request
ThreadMessageKinds ==
    { kinds \in UNION { [1..n -> MsgKinds] : n \in 0..MaxMessages } :
        kinds # <<>> => kinds[1] = "human" }

\* how a history entry is shaped: a full snapshot with an ISO timestamp, a
\* full snapshot with an empty timestamp, one whose timestamp is not ISO
\* text, and one with fewer than six positional fields
EntryForms == {"ok", "no_timestamp", "bad_timestamp", "short"}

HistoryForms == UNION { [1..n -> EntryForms] : n \in 0..MaxHistory }

\* text is a sequence of tokens; an ISO-8601 timestamp is the tokens
\* "date", a day and a zone suffix
IsoTimestamp(k) == <<"date", ToString(k), "Z">>

\* the node that is pending in the k-th oldest of n snapshots of a run
PendingNode(k, n) ==
    IF k = n THEN <<>>
    ELSE IF k = 1 THEN <<"__start__">>
    ELSE IF k = 2 THEN <<"decide_search">>
    ELSE <<"generate_answer">>

\* the k-th oldest of n snapshots of thread "thread-1": it holds the first k
\* messages of the thread, and current_idx = k tells the snapshots apart
Snapshot(form, k, n, kinds) ==
    LET m          == IF k < Len(kinds) THEN k ELSE Len(kinds)
        state_data == Mapping([messages    |-> [i \in 1..m |-> RawMessage(kinds[i], i)],
                               current_idx |-> k])
        config     == [configurable |-> [thread_id |-> "thread-1"]]
        metadata   == [writes |-> IF k = n THEN <<"generate_answer">> ELSE <<>>]
        timestamp  == CASE form = "no_timestamp"  -> <<>>
                        [] form = "bad_timestamp" -> <<"yesterday">>
                        [] OTHER                  -> IsoTimestamp(k)
        full       == <<state_data, PendingNode(k, n), config, metadata,
                        timestamp, NoneValue>>
    IN  IF form = "short" THEN SubSeq(full, 1, 5) ELSE full

\* what aget_state_history hands to the parser: the newest snapshot first
RawHistory(forms, kinds) ==
    LET n == Len(forms) IN
    [j \in 1..n |-> Snapshot(forms[n + 1 - j], n + 1 - j, n, kinds)]

\* ------------------------------------------- state history: the parser
\* the ParsedStateHistory of an empty history
NoParse == [thread_id |-> "", total_steps |-> 0, steps |-> <<>>]

Reversed(q) == [i \in 1..Len(q) |-> q[Len(q) + 1 - i]]

\* str.replace on text held as tokens
str_replace(text, old, new) ==
    [i \in 1..Len(text) |-> IF text[i] = old THEN new ELSE text[i]]

\* datetime.fromisoformat: a date followed by a numeric offset parses, any
\* other text raises
fromisoformat(text) ==
    IF Len(text) = 3 /\ text[1] = "date" /\ text[3] = "+00:00"
    THEN [raised |-> FALSE, value |-> [day |-> text[2], tz |-> "UTC"]]
    ELSE [raised |-> TRUE, value |-> [day |-> "", tz |-> ""]]

datetime_now == [day |-> "now", tz |-> "local"]

MessageType_mut(v) ==
    [raised |-> v \notin {"human", "ai", "tool"}, value |-> v]

\* the MessageType enumeration: constructing it from any other value raises
MessageType(v) ==
    [raised |-> v \notin {"human", "ai"}, value |-> v]

MessageKept_mut(msg) ==
    ~MessageType(Get(msg.fields, "type", "human")).raised

\* a message is appended unless it is no mapping or building it raises
MessageKept(msg) ==
    /\ isinstance_dict(msg)
    /\ ~MessageType(Get(msg.fields, "type", "human")).raised

Message(msg) ==
    [content |-> Get(msg.fields, "content", ""),
     type    |-> MessageType(Get(msg.fields, "type", "human")).value,
     id      |-> Get(msg.fields, "id", ""),
     name    |-> Get(msg.fields, "name", NoneValue)]

_parse_messages(state_data) ==
    IF ~isinstance_dict(state_data) THEN <<>>
    ELSE LET kept == SelectSeq(Get(state_data.fields, "messages", <<>>), MessageKept)
         IN  [i \in 1..Len(kept) |-> Message(kept[i])]

SearchResult(result) ==
    [body    |-> Get(result.fields, "body", ""),
     href    |-> Get(result.fields, "href", ""),
     title   |-> Get(result.fields, "title", ""),
     index   |-> Get(result.fields, "index", 0),
     content |-> Get(result.fields, "content", NoneValue)]

_parse_search_results(state_data) ==
    IF ~isinstance_dict(state_data) THEN <<>>
    ELSE LET kept == SelectSeq(Get(state_data.fields, "search_results", <<>>),
                               isinstance_dict)
         IN  [i \in 1..Len(kept) |-> SearchResult(kept[i])]

\* metadata.writes is held as the sequence of its keys
_get_node_name(next_nodes, metadata) ==
    IF next_nodes # <<>> THEN next_nodes[1]
    ELSE IF Has(metadata, "writes") /\ metadata.writes # <<>>
    THEN metadata.writes[1]
    ELSE "unknown"

KnownNodes ==
    {"__start__", "decide_search", "run_search", "generate_answer",
     "plan_outline", "search_section", "draft_section", "advance_index",
     "compile_report"}

\* the description of a step: the text of the node (or "Processing <node>")
\* and the context the state adds to it
_get_step_description(node_name, state_data, metadata) ==
    LET base == IF node_name \in KnownNodes THEN node_name
                ELSE "Processing " \o node_name
        f    == IF isinstance_dict(state_data) THEN state_data.fields ELSE <<>>
        found == IF Get(f, "search_results", <<>>) # <<>>
                 THEN <<"Found", Len(f.search_results)>> ELSE <<>>
        section == IF Get(f, "outline", <<>>) # <<>>
                      /\ Get(f, "current_idx", 0) < Len(f.outline)
                   THEN <<"for", f.outline[Get(f, "current_idx", 0) + 1]>> ELSE <<>>
        context ==
            IF ~isinstance_dict(state_data) THEN <<>>
            ELSE CASE node_name = "run_search" -> found
                   [] node_name = "search_section" -> section \o found
                   [] node_name = "decide_search" ->
                        IF Has(f, "should_search")
                        THEN <<"Decision", f.should_search>> ELSE <<>>
                   [] node_name = "plan_outline" ->
                        IF Get(f, "outline", <<>>) # <<>>
                        THEN <<"planned", Len(f.outline)>> ELSE <<>>
                   [] node_name = "draft_section" -> section
                   [] node_name = "advance_index" ->
                        IF Get(f, "outline", <<>>) # <<>>
                        THEN <<"completed", Get(f, "current_idx", 0) + 1, Len(f.outline)>>
                        ELSE <<>>
                   [] node_name = "compile_report" ->
                        IF Get(f, "section_drafts", <<>>) # <<>>
                        THEN <<"compiled", Len(f.section_drafts)>> ELSE <<>>
                   [] node_name = "generate_answer" ->
                        IF \E i \in 1..Len(Get(f, "messages", <<>>)) :
                              /\ isinstance_dict(f.messages[i])
                              /\ Get(f.messages[i].fields, "type", NoneValue) = "ai"
                        THEN <<"Response generated">> ELSE <<>>
                   [] OTHER -> <<>>
    IN  [base |-> base, context |-> context]

_parse_single_step_mut(state_entry, step_index) ==
    IF Len(state_entry) < 5 THEN [kind |-> "none"]
    ELSE LET state_data    == state_entry[1]
             next_nodes    == state_entry[2]
             metadata      == state_entry[4]
             timestamp_str == state_entry[5]
             timestamp     == IF timestamp_str # <<>>
                              THEN fromisoformat(str_replace(timestamp_str, "Z", "+00:00"))
                              ELSE [raised |-> FALSE, value |-> datetime_now]
             node_name     == _get_node_name(next_nodes, metadata)
             f             == IF isinstance_dict(state_data) THEN state_data.fields ELSE <<>>
         IN  IF timestamp.raised THEN [kind |-> "raise"]
             ELSE [kind |-> "step",
                   step |-> [step_number    |-> step_index,
                             node_name      |-> node_name,
                             timestamp      |-> timestamp.value,
                             description    |-> _get_step_description(node_name, state_data, metadata),
                             messages       |-> _parse_messages(state_data),
                             search_results |-> _parse_search_results(state_data),
                             should_search  |-> Get(f, "should_search", NoneValue),
                             outline        |-> Get(f, "outline", NoneValue),
                             current_idx    |-> Get(f, "current_idx", NoneValue),
                             section_drafts |-> Get(f, "section_drafts", NoneValue)]]

\* _parse_single_step: no step for an entry of fewer than six fields, a
\* raise when the timestamp is not ISO text, a StepInfo otherwise
_parse_single_step(state_entry, step_index) ==
    IF Len(state_entry) < 6 THEN [kind |-> "none"]
    ELSE LET state_data    == state_entry[1]
             next_nodes    == state_entry[2]
             metadata      == state_entry[4]
             timestamp_str == state_entry[5]
             timestamp     == IF timestamp_str # <<>>
                              THEN fromisoformat(str_replace(timestamp_str, "Z", "+00:00"))
                              ELSE [raised |-> FALSE, value |-> datetime_now]
             node_name     == _get_node_name(next_nodes, metadata)
             f             == IF isinstance_dict(state_data) THEN state_data.fields ELSE <<>>
         IN  IF timestamp.raised THEN [kind |-> "raise"]
             ELSE [kind |-> "step",
                   step |-> [step_number    |-> step_index,
                             node_name      |-> node_name,
                             timestamp      |-> timestamp.value,
                             description    |-> _get_step_description(node_name, state_data, metadata),
                             messages       |-> _parse_messages(state_data),
                             search_results |-> _parse_search_results(state_data),
                             should_search  |-> Get(f, "should_search", NoneValue),
                             outline        |-> Get(f, "outline", NoneValue),
                             current_idx    |-> Get(f, "current_idx", NoneValue),
                             section_drafts |-> Get(f, "section_drafts", NoneValue)]]

\* the loop of parse_state_history over the reversed history: entries[i] is
\* parsed with index i - 1; an entry that gives no step or raises is skipped
RECURSIVE parse_entries(_, _, _, _)
parse_entries(entries, i, steps, thread_id) ==
    IF i > Len(entries)
    THEN [thread_id |-> thread_id, total_steps |-> Len(steps), steps |-> steps]
    ELSE LET step_info == _parse_single_step(entries[i], i - 1) IN
         IF step_info.kind = "step"
         THEN parse_entries(entries, i + 1, Append(steps, step_info.step),
                  IF thread_id = ""
                  THEN Get(Get(entries[i][3], "configurable", <<>>), "thread_id", "")
                  ELSE thread_id)
         ELSE parse_entries(entries, i + 1, steps, thread_id)
RECURSIVE parse_entries_renumber(_, _, _, _)
parse_entries_renumber(entries, i, steps, thread_id) ==
    IF i > Len(entries)
    THEN [thread_id |-> thread_id, total_steps |-> Len(steps), steps |-> steps]
    ELSE LET step_info == _parse_single_step(entries[i], Len(steps)) IN
         IF step_info.kind = "step"
         THEN parse_entries_renumber(entries, i + 1, Append(steps, step_info.step),
                  IF thread_id = ""
                  THEN Get(Get(entries[i][3], "configurable", <<>>), "thread_id", "")
                  ELSE thread_id)
         ELSE parse_entries_renumber(entries, i + 1, steps, thread_id)

parse_state_history_renumber(raw) ==
    IF raw = <<>> THEN NoParse
    ELSE parse_entries_renumber(Reversed(raw), 1, <<>>, "")

parse_state_history_mut(raw) ==
    IF raw = <<>> THEN NoParse
    ELSE parse_entries(raw, 1, <<>>, "")

parse_state_history(raw) ==
    IF raw = <<>> THEN NoParse
    ELSE parse_entries(Reversed(raw), 1, <<>>, "")

\* ------------------------------------------------- chat routes: handlers
\* the registry of agents: identifier -> compiled graph
agents == [id \in {"simple-search", "workflow"} |->
              IF id = "simple-search" THEN "simple" ELSE "workflow"]

\* the agent identifiers a request can carry: none, the registered ones and
\* one that is not registered
AgentIds == {NoneValue, "simple-search", "workflow", "research-assistant"}

get_agent_mut(agent_id) ==
    LET id == IF agent_id = NoneValue THEN DEFAULT_AGENT ELSE agent_id IN
    IF id \notin DOMAIN agents
    THEN [raised |-> FALSE, graph |-> agents[DEFAULT_AGENT]]
    ELSE [raised |-> FALSE, graph |-> agents[id]]

\* get_agent: the graph registered under the identifier (under the default
\* identifier when none is given); KeyError when it is not registered
get_agent(agent_id) ==
    LET id == IF agent_id = NoneValue THEN DEFAULT_AGENT ELSE agent_id IN
    IF id \notin DOMAIN agents
    THEN [raised |-> TRUE, graph |-> NoneValue]
    ELSE [raised |-> FALSE, graph |-> agents[id]]

HumanMessageOf(text) ==
    [type |-> "human", content |-> [text |-> text, sections |-> <<>>]]

\* a task of a thread's latest snapshot: one without the interrupts
\* attribute, one with no interrupt, one with a pending interrupt
TaskKinds == {"plain", "not_interrupted", "interrupted"}

\* the i-th task of a snapshot is at the i-th of these nodes
TaskNode(i) == IF i = 1 THEN "run_search" ELSE "generate_answer"

Task(kind, i) ==
    [name       |-> TaskNode(i),
     has_attr   |-> kind # "plain",
     interrupts |-> IF kind = "interrupted" THEN <<"approve?">> ELSE <<>>]

\* the latest snapshot of a thread that has no checkpoint
EmptySnapshot == [values |-> [messages |-> <<>>], tasks |-> <<>>]

\* the latest snapshots a thread with checkpoints can have: its messages
\* and its tasks
Snapshots ==
    { [values |-> [messages |-> m],
       tasks  |-> [i \in 1..Len(kinds) |-> Task(kinds[i], i)]] :
        m \in {<<>>, <<HumanMessageOf("earlier"), AIMessage([text |-> "answer", sections |-> <<>>])>>},
        kinds \in UNION { [1..n -> TaskKinds] : n \in 0..MaxTasks } }

\* uuid4: an identifier nobody has used
uuid4(seed) == "uuid-" \o ToString(seed)

PendingInterrupt(task) == task.has_attr /\ task.interrupts # <<>>

_handle_input_mut(user_input, snapshot, seed) ==
    LET thread_id == IF user_input.thread_id # NoneValue
                     THEN user_input.thread_id ELSE uuid4(seed)
        input == [kind  |-> "messages",
                  value |-> <<HumanMessageOf(user_input.message)>>]
    IN  [input |-> input, thread_id |-> thread_id, run_id |-> seed]

\* _handle_input: the run id, the thread (a fresh one when the request names
\* none) and the input of the invocation: the message as resume value when
\* a task of the snapshot has a pending interrupt, as a new human message
\* otherwise
_handle_input(user_input, snapshot, seed) ==
    LET thread_id == IF user_input.thread_id # NoneValue
                     THEN user_input.thread_id ELSE uuid4(seed)
        interrupted_tasks == SelectSeq(snapshot.tasks, PendingInterrupt)
        input == IF interrupted_tasks # <<>>
                 THEN [kind |-> "resume", value |-> <<user_input.message>>]
                 ELSE [kind  |-> "messages",
                       value |-> <<HumanMessageOf(user_input.message)>>]
    IN  [input |-> input, thread_id |-> thread_id, run_id |-> seed]

\* how an invocation begins: a resume value re-enters the nodes of the
\* interrupted tasks on the persisted state; a messages input is appended to
\* the persisted messages and the graph is entered at its start node
begin_run(snapshot, input) ==
    IF input.kind = "resume"
    THEN LET interrupted_tasks == SelectSeq(snapshot.tasks, PendingInterrupt) IN
         [messages |-> snapshot.values.messages,
          entry    |-> [i \in 1..Len(interrupted_tasks) |-> interrupted_tasks[i].name],
          resume   |-> input.value]
    ELSE [messages |-> snapshot.values.messages \o input.value,
          entry    |-> <<"decide_search">>,
          resume   |-> <<>>]

NoRun == [messages |-> <<>>, entry |-> <<>>, resume |-> <<>>]

NoKwargs == [input |-> [kind |-> "none", value |-> <<>>], thread_id |-> "", run_id |-> 0]

NoOutput ==
    [graph |-> NoneValue, error |-> NoneValue, kwargs |-> NoKwargs,
     run |-> NoRun, started |-> FALSE, response |-> NoneValue]

\* no chat request is being handled
RequestIdle ==
    /\ request = [endpoint |-> "", agent_id |-> NoneValue, thread_id |-> NoneValue,
                  message |-> "", snapshot |-> EmptySnapshot]
    /\ req_pc = "idle"
    /\ req_out = NoOutput

\* --------------------------------------------- chat routes: many requests
\* requests are numbered by arrival; a request is run under its number
Requests == 1..MaxRequests

Threads == { "thread-" \o ToString(i) : i \in 1..MaxThreads }

\* the threads clients name, and the fresh one a request that names none gets
AllThreads == Threads \cup { uuid4(r) : r \in Requests }

\* the state of a thread that has no checkpoint
NoCheckpoint == [messages |-> <<>>]

Question(r) == "question " \o ToString(r)

NoRequest ==
    [status |-> "none", endpoint |-> "", thread |-> "", pc |-> "",
     input |-> NoKwargs.input, local |-> NoCheckpoint, saved |-> NoCheckpoint,
     responded |-> FALSE]

\* no request has arrived and no thread has a checkpoint
ServerIdle ==
    /\ store = [t \in AllThreads |-> NoCheckpoint]
    /\ runs = [r \in Requests |-> NoRequest]
    /\ interleaved = FALSE

aget_state_mut(thread_id) ==
    [values |-> store["thread-1"], tasks |-> <<>>]

\* aget_state: the latest checkpoint of the thread; no node of the two
\* graphs interrupts, so no task of it has a pending interrupt
aget_state(thread_id) ==
    [values |-> store[thread_id], tasks |-> <<>>]

chat_mut(kwargs) ==
    [status |-> "scheduled", responded |-> FALSE]

\* chat: the invocation is added as a background task and the run id is
\* returned
chat(kwargs) ==
    [status |-> "scheduled", responded |-> TRUE]

\* another run is between its first and its last write of the thread
OtherWriterActive(r, t) ==
    \E r2 \in Requests \ {r} :
        runs[r2].thread = t /\ runs[r2].status = "running"

\* --------------------------------------------------------------- executor
\* the update that changes nothing
NoDelta == [messages |-> <<>>]

GraphInit ==
    /\ agent \in {"simple", "workflow"}
    /\ status = "idle"
    /\ pc = "start"
    /\ state = [messages |-> <<>>]
    /\ run = 0
    /\ trace = <<>>
    /\ msgs0 = <<>>
    /\ planned = <<>>
    /\ drafts_done = 0
    /\ search_calls = 0
    /\ all_nogood = FALSE
    /\ run_calls = 0
    /\ results_read = <<>>
    /\ last_search = NoSearch
    /\ report_input = <<>>
    /\ last_delta = NoDelta
    /\ failed_call = FALSE

\* no state_history request is in progress
ParserIdle ==
    /\ raw_history = <<>>
    /\ parsed = NoParse
    /\ parser_pc = "idle"

\* one thread served run after run; no other request is in progress
Init ==
    /\ GraphInit
    /\ ParserIdle
    /\ RequestIdle
    /\ ServerIdle

\* the node at pc returned delta: merge it, follow the outgoing edge
Complete(delta) ==
    LET s2  == Merge(state, delta)
        nxt == NextNode(pc, s2)
    IN  /\ state' = s2
        /\ last_delta' = delta
        /\ failed_call' = FALSE
        /\ pc' = nxt
        /\ trace' = IF nxt = "end" THEN trace \o <<pc, "end">> ELSE Append(trace, pc)
        /\ status' = IF nxt = "end" THEN "done" ELSE "running"
Abort_mut ==
    /\ status' = "aborted"
    /\ last_delta' = [search_results |-> <<>>]
    /\ state' = Merge(state, last_delta')
    /\ UNCHANGED <<pc, trace>>

\* the node at pc raised: nothing is merged, the run is over
Abort ==
    /\ status' = "aborted"
    /\ UNCHANGED <<state, last_delta, pc, trace>>

\* a request on a thread without a running run: the message is appended as a
\* new human message and the graph is entered at its start node
StartRun ==
    /\ status \in {"idle", "done", "aborted"}
    /\ run < MaxRuns
    /\ run' = run + 1
    /\ last_delta' = [messages |-> <<HumanMessage>>]
    /\ failed_call' = FALSE
    /\ state' = Merge(state, last_delta')
    /\ msgs0' = state'.messages
    /\ pc' = "decide_search"
    /\ status' = "running"
    /\ trace' = <<"start">>
    /\ planned' = <<>>
    /\ drafts_done' = 0
    /\ run_calls' = 0
    /\ search_calls' = 0
    /\ all_nogood' = FALSE
    /\ results_read' = <<>>
    /\ last_search' = NoSearch
    /\ report_input' = <<>>
    /\ UNCHANGED agent
    /\ UNCHANGED <<parser_vars, request_vars, server_vars>>

DecideSearch ==
    /\ status = "running" /\ pc = "decide_search"
    /\ \E decision \in BOOLEAN : Complete(decide_search(state, decision))
    /\ UNCHANGED <<agent, run, msgs0, planned, drafts_done, search_calls,
                   all_nogood, run_calls, results_read, last_search, report_input>>
    /\ UNCHANGED <<parser_vars, request_vars, server_vars>>

RunSearch ==
    /\ agent = "simple" /\ status = "running" /\ pc = "run_search"
    /\ \E resp \in Responses :
          LET r == run_search(state, resp) IN
          /\ IF r.raised
             THEN Abort /\ failed_call' = (resp.kind = "raise")
             ELSE Complete(r.delta)
          /\ last_search' = [resp |-> resp, crawl |-> <<>>, attempt |-> resp,
                              earlier_nogood |-> TRUE,
                              completions |-> run_search_calls(resp).completion,
                              prompts |-> <<>>]
          /\ search_calls' = run_search_calls(resp).search
          /\ run_calls' = run_calls + run_search_calls(resp).search
    /\ UNCHANGED <<agent, run, msgs0, planned, drafts_done, all_nogood,
                   results_read, report_input>>
    /\ UNCHANGED <<parser_vars, request_vars, server_vars>>

SimpleGenerateAnswer ==
    /\ agent = "simple" /\ status = "running" /\ pc = "generate_answer"
    /\ results_read' = Get(state, "search_results", <<>>)
    /\ \E reply \in AnswerReplies :
          Complete(simple_generate_answer(state, AIMessage(reply)))
    /\ last_search' = NoSearch
    /\ search_calls' = 0
    /\ all_nogood' = FALSE
    /\ UNCHANGED <<agent, run, msgs0, planned, drafts_done,
                   run_calls, report_input>>
    /\ UNCHANGED <<parser_vars, request_vars, server_vars>>

PlanOutline ==
    /\ agent = "workflow" /\ status = "running" /\ pc = "plan_outline"
    /\ \E o \in Outlines :
          /\ Complete(plan_outline(state, o))
          /\ planned' = o
    /\ UNCHANGED <<agent, run, msgs0, drafts_done, search_calls, all_nogood,
                   run_calls, results_read, last_search, report_input>>
    /\ UNCHANGED <<parser_vars, request_vars, server_vars>>

\* the responses of the (at most 1 + max_retries) search calls of one
\* search_section invocation; a response after a usable or raising one is
\* never requested and is fixed to that one
Oracles ==
    { o \in [1..(1 + max_retries) -> Responses] :
        \A k \in 1..max_retries :
            (o[k].kind = "raise" \/ ~NoGood(o[k])) => o[k + 1] = o[k] }

\* one crawl outcome per raw item: every fetch succeeds with content, or all
\* but one do; items without a link are never crawled
CrawlChoices(results_list) ==
    LET n == Len(results_list.items) IN
    { [i \in 1..n |-> "ok"] }
        \cup { [i \in 1..n |-> IF i = j THEN o ELSE "ok"] :
                 j \in { k \in 1..n : results_list.items[k].link # "" },
                 o \in CrawlOutcomes \ {"ok"} }

SearchSection ==
    /\ agent = "workflow" /\ status = "running" /\ pc = "search_section"
    /\ \E oracle \in Oracles :
       \E crawl \in CrawlChoices(oracle[1 + max_retries]) :
          LET r == search_section(state, oracle, crawl) IN
          /\ IF r.raised
             THEN Abort /\ failed_call' = (r.resp.kind = "raise")
             ELSE Complete(r.delta)
          /\ search_calls' = r.calls
          /\ run_calls' = run_calls + r.calls
          /\ all_nogood' = \A k \in 1..(1 + max_retries) : NoGood(oracle[k])
          /\ last_search' =
                [resp |-> r.resp,
                 crawl |-> IF r.resp.kind = "list" THEN crawl ELSE <<>>,
                 attempt |-> IF r.calls = 0 THEN NoResponse ELSE oracle[r.calls],
                 earlier_nogood |-> \A k \in 1..(r.calls - 1) : NoGood(oracle[k]),
                 completions |-> r.calls,
                 prompts |-> IF r.calls = 0 THEN <<>> ELSE retry_prompts(r.calls - 1)]
    /\ UNCHANGED <<agent, run, msgs0, planned, drafts_done, results_read,
                   report_input>>
    /\ UNCHANGED <<parser_vars, request_vars, server_vars>>

DraftSection ==
    /\ agent = "workflow" /\ status = "running" /\ pc = "draft_section"
    /\ Complete(draft_section(state,
            [title |-> state.outline[state.current_idx + 1], run |-> run]))
    /\ drafts_done' = drafts_done + 1
    /\ UNCHANGED <<agent, run, msgs0, planned, search_calls, all_nogood,
                   run_calls, results_read, last_search, report_input>>
    /\ UNCHANGED <<parser_vars, request_vars, server_vars>>

AdvanceIndex ==
    /\ agent = "workflow" /\ status = "running" /\ pc = "advance_index"
    /\ Complete(advance_index(state))
    /\ last_search' = NoSearch
    /\ search_calls' = 0
    /\ all_nogood' = FALSE
    /\ UNCHANGED <<agent, run, msgs0, planned, drafts_done,
                   run_calls, results_read, report_input>>
    /\ UNCHANGED <<parser_vars, request_vars, server_vars>>

CompileReport ==
    /\ agent = "workflow" /\ status = "running" /\ pc = "compile_report"
    /\ report_input' = state.section_drafts
    /\ \E reply \in ReportReplies(state.section_drafts) :
          Complete(compile_report(state, AIMessage(reply)))
    /\ last_search' = NoSearch
    /\ search_calls' = 0
    /\ all_nogood' = FALSE
    /\ UNCHANGED <<agent, run, msgs0, planned, drafts_done,
                   run_calls, results_read>>
    /\ UNCHANGED <<parser_vars, request_vars, server_vars>>

WorkflowGenerateAnswer ==
    /\ agent = "workflow" /\ status = "running" /\ pc = "generate_answer"
    /\ results_read' = <<>>
    /\ \E reply \in AnswerReplies :
          Complete(workflow_generate_answer(state, AIMessage(reply)))
    /\ last_search' = NoSearch
    /\ search_calls' = 0
    /\ all_nogood' = FALSE
    /\ UNCHANGED <<agent, run, msgs0, planned, drafts_done,
                   run_calls, report_input>>
    /\ UNCHANGED <<parser_vars, request_vars, server_vars>>

\* the first call of the completion service raises inside the node at pc; a
\* search node has then made no search call
CompletionRaises ==
    /\ status = "running"
    /\ pc \in {"decide_search", "run_search", "generate_answer", "plan_outline",
               "search_section", "draft_section", "compile_report"}
    /\ Abort
    /\ failed_call' = TRUE
    /\ IF pc \in {"run_search", "search_section"}
       THEN search_calls' = 0 /\ all_nogood' = FALSE /\ last_search' = NoSearch
       ELSE UNCHANGED <<search_calls, all_nogood, last_search>>
    /\ UNCHANGED <<agent, run, msgs0, planned, drafts_done, run_calls,
                   results_read, report_input>>
    /\ UNCHANGED <<parser_vars, request_vars, server_vars>>

Next ==
    \/ StartRun
    \/ DecideSearch
    \/ RunSearch
    \/ SimpleGenerateAnswer
    \/ PlanOutline
    \/ SearchSection
    \/ DraftSection
    \/ AdvanceIndex
    \/ CompileReport
    \/ WorkflowGenerateAnswer
    \/ CompletionRaises

Spec == Init /\ [][Next]_vars

\* the steps of the executor loop: the node of a running run is executed
NodeSteps ==
    \/ DecideSearch
    \/ RunSearch
    \/ SimpleGenerateAnswer
    \/ PlanOutline
    \/ SearchSection
    \/ DraftSection
    \/ AdvanceIndex
    \/ CompileReport
    \/ WorkflowGenerateAnswer

\* the executor goes on with a running run until it ends
LiveSpec == Spec /\ WF_vars(NodeSteps)

\* ------------------------------------------------- state history request
\* a state_history request for the simple agent on a thread whose history
\* is any bounded raw history
ParserInit ==
    /\ GraphInit /\ agent = "simple"
    /\ \E forms \in HistoryForms, kinds \in ThreadMessageKinds :
          raw_history = RawHistory(forms, kinds)
    /\ parsed = NoParse
    /\ parser_pc = "called"
    /\ RequestIdle
    /\ ServerIdle

\* get_state_history: the items are parsed and the result is returned
ParseHistory ==
    /\ parser_pc = "called"
    /\ parsed' = parse_state_history(raw_history)
    /\ parser_pc' = "returned"
    /\ UNCHANGED <<raw_history, graph_vars, request_vars, server_vars>>

ParserNext == ParseHistory

ParserSpec == ParserInit /\ [][ParserNext]_vars

\* ------------------------------------------------- one chat request
\* a chat request arrives: its endpoint, its agent identifier, its thread (or
\* none) and the latest snapshot of that thread
RequestInit ==
    /\ GraphInit /\ agent = "simple"
    /\ ParserIdle
    /\ ServerIdle
    /\ \E endpoint \in {"chat", "chat_wait"}, agent_id \in AgentIds,
          thread_id \in {NoneValue, "thread-1"}, snapshot \in Snapshots :
          request = [endpoint  |-> endpoint,
                     agent_id  |-> agent_id,
                     thread_id |-> thread_id,
                     message   |-> "hello",
                     snapshot  |-> IF thread_id = NoneValue
                                   THEN EmptySnapshot ELSE snapshot]
    /\ req_pc = "get_agent"
    /\ req_out = NoOutput

\* chat and chat_wait, first line: an unknown identifier ends the request
GetAgent ==
    /\ req_pc = "get_agent"
    /\ LET r == get_agent(request.agent_id) IN
       IF r.raised
       THEN /\ req_out' = [req_out EXCEPT !.error = "KeyError"]
            /\ req_pc' = "failed"
       ELSE /\ req_out' = [req_out EXCEPT !.graph = r.graph]
            /\ req_pc' = "handle_input"
    /\ UNCHANGED <<request, graph_vars, parser_vars, server_vars>>

HandleInput ==
    /\ req_pc = "handle_input"
    /\ req_out' = [req_out EXCEPT
                      !.kwargs = _handle_input(request, request.snapshot, 1)]
    /\ req_pc' = "invoke"
    /\ UNCHANGED <<request, graph_vars, parser_vars, server_vars>>

\* chat: the invocation becomes a background task, the run id is returned
Chat ==
    /\ req_pc = "invoke" /\ request.endpoint = "chat"
    /\ req_out' = [req_out EXCEPT
                      !.started  = TRUE,
                      !.run      = begin_run(request.snapshot, req_out.kwargs.input),
                      !.response = "run_id"]
    /\ req_pc' = "responded"
    /\ UNCHANGED <<request, graph_vars, parser_vars, server_vars>>

\* chat_wait: the invocation is awaited; its last event is the final state,
\* an interrupt or anything else, or it raises
ChatWait ==
    /\ req_pc = "invoke" /\ request.endpoint = "chat_wait"
    /\ \E outcome \in {"values", "interrupt", "other", "raise"} :
          /\ req_out' = [req_out EXCEPT
                            !.started  = TRUE,
                            !.run      = begin_run(request.snapshot, req_out.kwargs.input),
                            !.response = CASE outcome = "values"    -> "last message"
                                           [] outcome = "interrupt" -> "interrupt value"
                                           [] OTHER                 -> NoneValue,
                            !.error    = IF outcome \in {"other", "raise"}
                                         THEN "HTTP 500" ELSE NoneValue]
          /\ req_pc' = IF outcome \in {"other", "raise"} THEN "failed" ELSE "responded"
    /\ UNCHANGED <<request, graph_vars, parser_vars, server_vars>>

RequestNext ==
    \/ GetAgent
    \/ HandleInput
    \/ Chat
    \/ ChatWait

RequestSpec == RequestInit /\ [][RequestNext]_vars

\* ------------------------------------------------- many chat requests
\* fire-and-forget requests for the simple-search agent arrive while earlier
\* runs are still executing; every run reads the thread's latest checkpoint when it begins
\* and writes a checkpoint after its input and after each node
ServerInit ==
    /\ GraphInit /\ agent = "simple"
    /\ ParserIdle
    /\ RequestIdle
    /\ ServerIdle

\* the request that arrives next
Arriving(r) ==
    /\ r \in Requests
    /\ runs[r].status = "none"
    /\ \A q \in 1..(r - 1) : runs[q].status # "none"

Accepted(r, endpoint, kwargs, handled) ==
    [status    |-> handled.status,
     endpoint  |-> endpoint,
     thread    |-> kwargs.thread_id,
     pc        |-> "start",
     input     |-> kwargs.input,
     local     |-> NoCheckpoint,
     saved     |-> NoCheckpoint,
     responded |-> handled.responded]

\* _handle_input for request r on the thread it names (or on a fresh one)
ServerInput(r, thread_id) ==
    _handle_input([thread_id |-> thread_id, message |-> Question(r)],
                  aget_state(IF thread_id = NoneValue THEN uuid4(r) ELSE thread_id),
                  r)

ServerChat ==
    /\ \E r \in Requests, thread_id \in Threads \cup {NoneValue} :
          /\ Arriving(r)
          /\ get_agent("simple-search").graph = "simple"
          /\ LET kwargs == ServerInput(r, thread_id) IN
             runs' = [runs EXCEPT ![r] = Accepted(r, "chat", kwargs, chat(kwargs))]
    /\ UNCHANGED <<store, interleaved, graph_vars, parser_vars, request_vars>>

\* run r wrote s2 as the latest checkpoint of its thread and goes on to nxt
Checkpoint(r, s2, nxt) ==
    LET t == runs[r].thread IN
    /\ store' = [store EXCEPT ![t] = s2]
    /\ runs' = [runs EXCEPT ![r].local     = s2,
                            ![r].saved     = s2,
                            ![r].pc        = nxt,
                            ![r].status    = IF nxt = "end" THEN "done" ELSE "running"]
    /\ interleaved' = (interleaved \/ OtherWriterActive(r, t))

\* the invocation of run r begins: it loads the latest checkpoint of the
\* thread, applies its input and enters the graph
BeginRun ==
    /\ \E r \in Requests :
          /\ runs[r].status = "scheduled"
          /\ LET t == runs[r].thread
                 b == begin_run(aget_state(t), runs[r].input)
             IN  Checkpoint(r, [aget_state(t).values EXCEPT !.messages = b.messages],
                            b.entry[1])
    /\ UNCHANGED <<graph_vars, parser_vars, request_vars>>

ServerDecideSearch ==
    /\ \E r \in Requests, decision \in BOOLEAN :
          /\ runs[r].status = "running" /\ runs[r].pc = "decide_search"
          /\ LET s2 == Merge(runs[r].local, decide_search(runs[r].local, decision))
             IN  Checkpoint(r, s2, simple_next("decide_search", s2))
    /\ UNCHANGED <<graph_vars, parser_vars, request_vars>>

\* the search service answers with one item
ServerRunSearch ==
    /\ \E r \in Requests :
          /\ runs[r].status = "running" /\ runs[r].pc = "run_search"
          /\ LET x  == run_search(runs[r].local, [kind |-> "list", items |-> <<RawItem(1)>>])
                 s2 == Merge(runs[r].local, x.delta)
             IN  Checkpoint(r, s2, simple_next("run_search", s2))
    /\ UNCHANGED <<graph_vars, parser_vars, request_vars>>

ServerGenerateAnswer ==
    /\ \E r \in Requests, reply \in AnswerReplies :
          /\ runs[r].status = "running" /\ runs[r].pc = "generate_answer"
          /\ LET s2 == Merge(runs[r].local,
                             simple_generate_answer(runs[r].local, AIMessage(reply)))
             IN  Checkpoint(r, s2, simple_next("generate_answer", s2))
    /\ UNCHANGED <<graph_vars, parser_vars, request_vars>>

\* the steps of the runs, as opposed to the arrival of requests
RunSteps ==
    \/ BeginRun
    \/ ServerDecideSearch
    \/ ServerRunSearch
    \/ ServerGenerateAnswer

ServerNext ==
    \/ ServerChat
    \/ BeginRun
    \/ ServerDecideSearch
    \/ ServerRunSearch
    \/ ServerGenerateAnswer

ServerSpec == ServerInit /\ [][ServerNext]_vars

\* the event loop runs every background task
ServerLiveSpec == ServerSpec /\ WF_vars(RunSteps)

\* ================================================================= claims
\* last node the current run completed ("start" when none has)
LastNode ==
    IF trace = <<>> THEN "none"
    ELSE IF Last(trace) = "end" THEN trace[Len(trace) - 1]
    ELSE Last(trace)

Visited(node) == \E i \in 1..Len(trace) : trace[i] = node

Decided == Len(trace) >= 2 /\ trace[2] = "decide_search"

\* C1: at the moment compile_report starts, len(section_drafts) equals
\* len(outline) and current_idx equals len(outline) - 1, on a fresh thread
\* and on a thread that already holds persisted state.
C1_AtCompileStart ==
    (agent = "workflow" /\ status = "running" /\ pc = "compile_report") =>
        /\ Len(state.section_drafts) = Len(state.outline)
        /\ state.current_idx = Len(state.outline) - 1

\* C2: one search_section invocation calls the search service at most 3
\* times; when every attempt returns an empty list or the sentinel it calls
\* it exactly 3 times and returns exactly the one placeholder result.
C2_SearchSectionRetries ==
    agent = "workflow" =>
        /\ search_calls <= 3
        /\ (LastNode = "search_section" /\ all_nogood) =>
              /\ search_calls = 3
              /\ state.search_results = <<SectionPlaceholder>>
              /\ state.search_results[1].title = "No Results"
              /\ state.search_results[1].href = ""
              /\ state.search_results[1].index = 1

C2_Witness ==
    /\ agent = "workflow" /\ LastNode = "search_section" /\ all_nogood
    /\ search_calls = 3
    /\ state.search_results = <<SectionPlaceholder>>

\* the node sequence of a completed report run over n sections
RECURSIVE SectionCycles(_, _)
SectionCycles(i, n) ==
    IF i > n THEN <<>>
    ELSE <<"search_section", "draft_section">>
            \o (IF i < n THEN <<"advance_index">> ELSE <<>>)
            \o SectionCycles(i + 1, n)

ReportTrace(n) ==
    <<"start", "decide_search", "plan_outline">> \o SectionCycles(1, n)
        \o <<"compile_report", "end">>

\* C3: in a report run whose planned outline has n >= 1 sections the nodes
\* run in the order search, draft (, advance) for section 0..n-1 and then
\* compile_report once: the visited nodes are always a prefix of that
\* sequence, and the whole sequence when the run has finished.
C3_ReportRunShape ==
    (agent = "workflow" /\ Visited("plan_outline") /\ Len(planned) >= 1) =>
        /\ IsPrefix(trace, ReportTrace(Len(planned)))
        /\ status = "done" => trace = ReportTrace(Len(planned))

C3_Witness ==
    /\ agent = "workflow" /\ status = "done" /\ Len(planned) = 2
    /\ trace = <<"start", "decide_search", "plan_outline",
                 "search_section", "draft_section", "advance_index",
                 "search_section", "draft_section", "compile_report", "end">>

\* C4: in the report graph the node to run next changes only along the
\* edges start->decide_search, decide_search->plan_outline (should_search)
\* or generate_answer (otherwise), plan_outline->search_section,
\* search_section->draft_section, draft_section->advance_index (more
\* sections remain) or compile_report (otherwise),
\* advance_index->search_section, compile_report->end, generate_answer->end.
C4_ReportSuccessions ==
    [][(agent = "workflow" /\ pc' # pc) =>
        \/ status # "running" /\ pc' = "decide_search"
        \/ /\ status = "running" /\ pc = "decide_search"
           /\ pc' = IF state'.should_search THEN "plan_outline"
                    ELSE "generate_answer"
        \/ status = "running" /\ pc = "plan_outline" /\ pc' = "search_section"
        \/ status = "running" /\ pc = "search_section" /\ pc' = "draft_section"
        \/ /\ status = "running" /\ pc = "draft_section"
           /\ pc' = IF state'.current_idx + 1 < Len(state'.outline)
                    THEN "advance_index" ELSE "compile_report"
        \/ status = "running" /\ pc = "advance_index" /\ pc' = "search_section"
        \/ status = "running" /\ pc = "compile_report" /\ pc' = "end"
        \/ status = "running" /\ pc = "generate_answer" /\ pc' = "end"
      ]_vars

C4_Witness ==
    /\ agent = "workflow" /\ status = "done" /\ pc = "end"
    /\ Visited("advance_index") /\ Visited("compile_report")

SimpleSearchTrace ==
    <<"start", "decide_search", "run_search", "generate_answer", "end">>

SimpleDirectTrace == <<"start", "decide_search", "generate_answer", "end">>

\* C5: every run of the simple graph visits start, decide_search,
\* run_search, generate_answer, end when should_search is true and start,
\* decide_search, generate_answer, end when it is false.
C5_SimpleRunShape ==
    (agent = "simple" /\ status # "idle") =>
        /\ ~Decided => trace = <<"start">>
        /\ Decided =>
              LET t == IF state.should_search THEN SimpleSearchTrace
                       ELSE SimpleDirectTrace
              IN  /\ IsPrefix(trace, t)
                  /\ status = "done" => trace = t

C5_Witness ==
    /\ agent = "simple" /\ status = "done" /\ state.should_search
    /\ trace = SimpleSearchTrace

\* C6: in either graph, a run whose decide_search returned false never
\* invokes the search service, plans no outline and drafts no section: it
\* goes from decide_search to generate_answer and ends with exactly one new
\* assistant message.
C6_NoSearchRun ==
    (Decided /\ ~state.should_search) =>
        /\ run_calls = 0
        /\ drafts_done = 0
        /\ ~Visited("plan_outline") /\ ~Visited("run_search")
        /\ ~Visited("search_section") /\ ~Visited("draft_section")
        /\ IsPrefix(trace, SimpleDirectTrace)
        /\ status = "done" =>
              /\ trace = SimpleDirectTrace
              /\ Len(state.messages) = Len(msgs0) + 1
              /\ SubSeq(state.messages, 1, Len(msgs0)) = msgs0
              /\ Last(state.messages).type = "ai"

C6_Witness ==
    /\ agent = "workflow" /\ status = "done" /\ Decided /\ ~state.should_search
    /\ run_calls = 0 /\ Last(state.messages).type = "ai"

\* C7: whenever outline and current_idx are set in the report graph,
\* 0 <= current_idx <= len(outline).
C7_CursorInRange ==
    (agent = "workflow" /\ Has(state, "outline") /\ Has(state, "current_idx")) =>
        /\ 0 <= state.current_idx
        /\ state.current_idx <= Len(state.outline)

C7_Witness ==
    /\ agent = "workflow" /\ Has(state, "outline") /\ Has(state, "current_idx")
    /\ LastNode = "advance_index"
    /\ state.current_idx = 1 /\ Len(state.outline) = 2

\* C8: between plan_outline and compile_report of a report run, on any
\* thread, len(section_drafts) equals the number of draft_section steps
\* completed in that run and never exceeds len(outline).
C8_DraftCount ==
    (agent = "workflow" /\ Visited("plan_outline") /\ ~Visited("compile_report")) =>
        /\ Len(Get(state, "section_drafts", <<>>)) = drafts_done
        /\ Len(Get(state, "section_drafts", <<>>)) <= Len(state.outline)

\* C9: immediately after generate_answer (either graph), advance_index and
\* compile_report, search_results is the empty list.
C9_ResultsCleared ==
    LastNode \in {"generate_answer", "advance_index", "compile_report"} =>
        /\ Has(state, "search_results")
        /\ state.search_results = <<>>

C9_Witness ==
    /\ LastNode = "advance_index" /\ pc = "search_section"
    /\ Has(state, "search_results") /\ state.search_results = <<>>
    /\ run_calls >= 1

\* C10: whenever generate_answer executes in a run whose decide_search
\* returned false, the search_results it reads from the state are empty.
C10_NoLeak ==
    (LastNode = "generate_answer" /\ ~state.should_search) =>
        results_read = <<>>

\* the raw items of the usable response behind the batch a search node has
\* just stored
SearchedItems == last_search.resp.items

AfterUsableSearch ==
    /\ LastNode \in {"run_search", "search_section"}
    /\ last_search.resp.kind = "list"
    /\ SearchedItems # <<>>

\* C11: a search that returns N >= 1 raw items is stored as a batch of
\* exactly N results, in the order of the raw items, and the result made
\* from the i-th raw item has index i (counting from 1), in the simple
\* graph's run_search and in the report graph's search_section alike.
C11_NormalizedBatch ==
    AfterUsableSearch =>
        /\ Len(state.search_results) = Len(SearchedItems)
        /\ \A i \in 1..Len(SearchedItems) :
              /\ state.search_results[i].index = i
              /\ state.search_results[i].body = SearchedItems[i].snippet
              /\ state.search_results[i].href = SearchedItems[i].link

C11_Witness ==
    /\ agent = "simple" /\ AfterUsableSearch
    /\ Len(SearchedItems) = 2
    /\ state.search_results[2].index = 2
    /\ state.search_results[2].body = RawItem(2).snippet

\* C12: in the simple graph's run_search and in the normalization done by
\* the report graph's search_section, the result at position i has body
\* equal to the raw item's snippet, href equal to its link and title equal
\* to its name.
C12_FieldMapping ==
    AfterUsableSearch =>
        \A i \in 1..Len(SearchedItems) :
            /\ state.search_results[i].body = SearchedItems[i].snippet
            /\ state.search_results[i].href = SearchedItems[i].link
            /\ state.search_results[i].title = SearchedItems[i].name

AfterEmptySimpleSearch ==
    /\ agent = "simple" /\ LastNode = "run_search"
    /\ last_search.resp.kind = "list"
    /\ SearchedItems = <<>>

\* C13: in the simple graph, when the search service returns an empty list,
\* run_search stores exactly one placeholder result, with title "No Results",
\* empty href and index 1.
C13_SimplePlaceholder ==
    AfterEmptySimpleSearch =>
        /\ Len(state.search_results) = 1
        /\ state.search_results[1].title = "No Results"
        /\ state.search_results[1].href = ""
        /\ state.search_results[1].index = 1

C13_Witness ==
    /\ AfterEmptySimpleSearch
    /\ state.search_results = <<SimplePlaceholder>>
    /\ pc = "generate_answer"

\* exactly one assistant message was appended to the messages the run
\* started with
OneAssistantMessageAppended ==
    /\ Len(state.messages) = Len(msgs0) + 1
    /\ SubSeq(state.messages, 1, Len(msgs0)) = msgs0
    /\ Last(state.messages).type = "ai"

\* C14: compile_report appends exactly one assistant message to messages,
\* the earlier messages unchanged and in order, and sets search_results,
\* outline and section_drafts to the empty list and current_idx to 0, so
\* that after a completed report run every report-scoped field is back at
\* its initial value.
C14_CompileResets ==
    LastNode = "compile_report" =>
        /\ OneAssistantMessageAppended
        /\ state.search_results = <<>>
        /\ state.outline = <<>>
        /\ state.current_idx = 0
        /\ Has(state, "section_drafts") /\ state.section_drafts = <<>>

C14_Witness ==
    /\ LastNode = "compile_report" /\ status = "done"
    /\ Len(report_input) = 2
    /\ Len(msgs0) = 3
    /\ state.section_drafts = <<>>
    /\ state.outline = <<>>

\* C15: for every response of the completion service, the assistant message
\* produced by compile_report is a generated introduction followed by the
\* section drafts joined with blank lines, every draft unchanged and in
\* outline order.
C15_ReportVerbatim ==
    LastNode = "compile_report" =>
        /\ Last(state.messages).content.text = "introduction"
        /\ Last(state.messages).content.sections = report_input

\* C16: generate_answer appends exactly one assistant message and sets
\* search_results to the empty list; in the report graph it also sets
\* outline and section_drafts to the empty list and current_idx to 0.
C16_AnswerResets ==
    LastNode = "generate_answer" =>
        /\ OneAssistantMessageAppended
        /\ state.search_results = <<>>
        /\ agent = "workflow" =>
              /\ Has(state, "outline") /\ state.outline = <<>>
              /\ Has(state, "current_idx") /\ state.current_idx = 0
              /\ Has(state, "section_drafts") /\ state.section_drafts = <<>>

\* the answer of a second report-graph run whose first run aborted
C16_Witness ==
    /\ agent = "workflow" /\ LastNode = "generate_answer" /\ status = "done"
    /\ run = 2 /\ Len(msgs0) = 2
    /\ Len(state.messages) = 3
    /\ state.outline = <<>> /\ state.section_drafts = <<>>

\* the crawl outcomes in which the fetch of a URL raises
CrawlFailures == {"network_error", "invalid_response", "unexpected_error"}

FailureDescriptions ==
    { "Failed to crawl content: Network error",
      "Failed to crawl content: Invalid response format",
      "Failed to crawl content: Unexpected error" }

\* C17: during enrichment in search_section a failure fetching one URL
\* (network error, malformed response or any other exception) never aborts
\* the node: the content of that result becomes a failure description, every
\* other result is still fetched, and the stored batch has as many entries
\* as the raw result list, in the same order.
C17_CrawlFailureContained ==
    /\ (pc = "search_section" /\ status = "aborted") =>
          ~(last_search.resp.kind = "list" /\ SearchedItems # <<>>)
    /\ (agent = "workflow" /\ AfterUsableSearch) =>
          /\ Len(state.search_results) = Len(SearchedItems)
          /\ \A i \in 1..Len(SearchedItems) :
                /\ state.search_results[i].href = SearchedItems[i].link
                /\ state.search_results[i].index = i
                /\ last_search.crawl[i] \in CrawlFailures =>
                      state.search_results[i].content \in FailureDescriptions
                /\ (last_search.crawl[i] = "ok" /\ SearchedItems[i].link # "") =>
                      state.search_results[i].content = "markdown"

C17_Witness ==
    /\ agent = "workflow" /\ AfterUsableSearch
    /\ pc = "draft_section" /\ status = "running"
    /\ last_search.crawl = <<"network_error", "ok">>
    /\ state.search_results[1].content \in FailureDescriptions
    /\ state.search_results[2].content = "markdown"

\* ------------------------------------------------ state history: claims
\* the raw history oldest first, as the parser walks it
Chronological == Reversed(raw_history)

\* an entry the snapshot format allows: six positional fields and an ISO
\* timestamp (or none)
WellFormed(entry) ==
    /\ Len(entry) >= 6
    /\ entry[5] # <<>> => entry[5] = IsoTimestamp(entry[1].fields.current_idx)

\* the step was made from the entry
StepOf(step, entry) ==
    /\ step.current_idx = entry[1].fields.current_idx
    /\ step.node_name = _get_node_name(entry[2], entry[4])
    /\ entry[5] # <<>> => step.timestamp.day = entry[5][2]

\* C18: given N well-formed snapshots supplied newest-first,
\* parse_state_history returns total_steps = N and N steps whose step_number
\* values are 0, 1, ..., N-1 in list order, step k describing the k-th oldest
\* snapshot (the input order reversed).
C18_RoundTrip ==
    (parser_pc = "returned"
        /\ \A j \in 1..Len(raw_history) : WellFormed(raw_history[j])) =>
        LET N == Len(raw_history) IN
        /\ parsed.total_steps = N
        /\ Len(parsed.steps) = N
        /\ \A k \in 1..N :
              /\ parsed.steps[k].step_number = k - 1
              /\ StepOf(parsed.steps[k], raw_history[N + 1 - k])

C18_Witness ==
    /\ parser_pc = "returned"
    /\ Len(raw_history) = 3
    /\ \A j \in 1..3 : WellFormed(raw_history[j])
    /\ raw_history[1][1].fields.current_idx = 3
    /\ parsed.total_steps = 3
    /\ parsed.steps[1].current_idx = 1
    /\ parsed.steps[3].step_number = 2

\* C19: for any raw history in which some entries are unparseable (fewer
\* than 6 positional fields, or parsing the entry raises),
\* parse_state_history does not raise: it returns, it omits exactly those
\* entries and it returns every other entry as a step, in chronological
\* order.
C19_SkipUnparseable ==
    /\ parser_pc = "called" => ENABLED ParseHistory
    /\ parser_pc = "returned" =>
          LET expected == SelectSeq(Chronological, WellFormed) IN
          /\ parsed.total_steps = Len(expected)
          /\ Len(parsed.steps) = Len(expected)
          /\ \A k \in 1..Len(expected) : StepOf(parsed.steps[k], expected[k])

\* a short entry between two well-formed ones
C19_Witness ==
    /\ parser_pc = "returned"
    /\ Len(raw_history) = 3
    /\ WellFormed(raw_history[1])
    /\ Len(raw_history[2]) < 6
    /\ WellFormed(raw_history[3])
    /\ Len(parsed.steps) = 2
    /\ parsed.steps[1].current_idx = 1
    /\ parsed.steps[2].current_idx = 3

\* the messages of a snapshot whose type is recognised, in their order
RecognisedMessages(entry) ==
    LET messages == entry[1].fields.messages
        Recognised(msg) == /\ msg.shape = "mapping"
                           /\ ("type" \in DOMAIN msg.fields =>
                                  msg.fields.type \in {"human", "ai"})
    IN  SelectSeq(messages, Recognised)

\* C20: when a snapshot's messages contain an entry whose type is not
\* recognised, the parser omits only that entry: the step is still emitted
\* and all other messages of the snapshot are kept in their original
\* relative order.
C20_UnknownMessageSkipped ==
    parser_pc = "returned" =>
        LET expected == SelectSeq(Chronological, WellFormed) IN
        /\ Len(parsed.steps) = Len(expected)
        /\ \A k \in 1..Len(parsed.steps) :
              LET kept == RecognisedMessages(expected[k]) IN
              /\ Len(parsed.steps[k].messages) = Len(kept)
              /\ \A i \in 1..Len(kept) :
                    /\ parsed.steps[k].messages[i].content = kept[i].fields.content
                    /\ parsed.steps[k].messages[i].id = kept[i].fields.id

\* a tool message between a human and an ai message
C20_Witness ==
    /\ parser_pc = "returned"
    /\ Len(raw_history) = 3 /\ WellFormed(raw_history[1])
    /\ Len(raw_history[1][1].fields.messages) = 3
    /\ raw_history[1][1].fields.messages[1].fields.type = "human"
    /\ raw_history[1][1].fields.messages[2].fields.type = "tool"
    /\ raw_history[1][1].fields.messages[3].fields.type = "ai"
    /\ Len(parsed.steps) >= 1
    /\ Len(Last(parsed.steps).messages) = 2
    /\ Last(parsed.steps).messages[1].type = "human"
    /\ Last(parsed.steps).messages[2].type = "ai"

\* ------------------------------------------------- chat routes: claims
\* C21: get_agent returns the registered graph for a known identifier and
\* the default agent's graph when no identifier is given; for an identifier
\* that is not in the registry it fails with an error, returns no graph and
\* no run is started.
C21_AgentLookup ==
    req_pc \notin {"idle", "get_agent"} =>
        CASE request.agent_id = "simple-search" ->
                req_out.graph = "simple" /\ req_out.error # "KeyError"
          [] request.agent_id = "workflow" ->
                req_out.graph = "workflow" /\ req_out.error # "KeyError"
          [] request.agent_id = NoneValue ->
                req_out.graph = "simple" /\ req_out.error # "KeyError"
          [] OTHER ->
                /\ req_pc = "failed"
                /\ req_out.error = "KeyError"
                /\ req_out.graph = NoneValue
                /\ ~req_out.started
                /\ req_out.run = NoRun

C21_Witness ==
    /\ req_pc = "failed"
    /\ request.agent_id = "research-assistant"
    /\ req_out.error = "KeyError"
    /\ ~req_out.started

\* C22: when a request arrives for a thread whose latest state has a task
\* with a pending interrupt, the user's message is passed to the graph as
\* the resume value and is not appended as a new human message, so
\* execution re-enters at the interrupted node; when the thread has no
\* pending interrupt, the message is appended as a new human message and a
\* new run starts from the start node.
C22_ResumeOrNewRun ==
    req_out.started =>
        LET tasks    == request.snapshot.tasks
            pending  == { i \in 1..Len(tasks) :
                            tasks[i].has_attr /\ tasks[i].interrupts # <<>> }
            messages == request.snapshot.values.messages
        IN  IF pending # {}
            THEN /\ req_out.kwargs.input.kind = "resume"
                 /\ req_out.run.resume = <<request.message>>
                 /\ req_out.run.messages = messages
                 /\ Len(req_out.run.entry) = Cardinality(pending)
                 /\ \A i \in pending :
                       \E j \in 1..Len(req_out.run.entry) :
                           req_out.run.entry[j] = tasks[i].name
            ELSE /\ req_out.kwargs.input.kind = "messages"
                 /\ req_out.run.messages =
                       Append(messages, HumanMessageOf(request.message))
                 /\ req_out.run.entry = <<"decide_search">>

\* a thread with two messages whose second task is interrupted
C22_Witness ==
    /\ req_out.started /\ req_pc = "responded"
    /\ Len(request.snapshot.tasks) = 2
    /\ request.snapshot.tasks[1].interrupts = <<>>
    /\ request.snapshot.tasks[2].interrupts # <<>>
    /\ req_out.kwargs.input.kind = "resume"
    /\ req_out.run.entry = <<"generate_answer">>
    /\ Len(req_out.run.messages) = 2

\* the runs accepted on thread t
RunsOn(t) == { r \in Requests : runs[r].status # "none" /\ runs[r].thread = t }

RespondedAtOnce ==
    \A r \in Requests :
        (runs[r].status # "none" /\ runs[r].endpoint = "chat") => runs[r].responded

FinalStateCheckpointed ==
    \A r \in Requests :
        runs[r].status = "done" =>
            /\ runs[r].pc = "end"
            /\ runs[r].saved = runs[r].local
            /\ Last(runs[r].local.messages).type = "ai"

Quiescent(t) == \A r \in RunsOn(t) : runs[r].status = "done"

\* the state of every thread at rest is one that its runs, executed one
\* after the other, leave: a question and an answer for each run
SequentialFinalState ==
    \A t \in AllThreads :
        Quiescent(t) =>
            /\ Len(store[t].messages) = 2 * Cardinality(RunsOn(t))
            /\ \A r \in RunsOn(t) :
                  \E i \in 1..Len(store[t].messages) :
                      store[t].messages[i] = HumanMessageOf(Question(r))

\* C24: when two runs are started concurrently on the same thread
\* identifier, at most one of them writes the thread's state at a time: no
\* node transition of one run is interleaved between two node transitions
\* of the other, and the thread's final state equals the result of
\* executing the two runs one after the other.
C24_RunsSerialized ==
    /\ ~interleaved
    /\ SequentialFinalState

\* C25: runs on different thread identifiers, interleaved in any order,
\* never read or write each other's state: the final state of a thread
\* depends only on the inputs and external responses of the runs made on
\* that thread.
C25_ThreadIsolation ==
    \A t \in AllThreads :
        /\ (\A r \in RunsOn(t) : runs[r].status = "scheduled") =>
              store[t] = NoCheckpoint
        /\ \A r \in Requests :
              \/ r \in RunsOn(t)
              \/ \A i \in 1..Len(store[t].messages) :
                    store[t].messages[i] # HumanMessageOf(Question(r))
        /\ \A r \in RunsOn(t) :
              (RunsOn(t) = {r} /\ runs[r].status # "scheduled") =>
                  /\ store[t] = runs[r].local
                  /\ store[t].messages[1] = HumanMessageOf(Question(r))
                  /\ Len(store[t].messages) = IF runs[r].status = "done" THEN 2 ELSE 1

\* a run on a fresh thread ended while a run on thread-1 was at its last node
C25_Witness ==
    /\ runs[1].thread = "thread-1" /\ runs[2].thread = uuid4(2)
    /\ runs[1].status = "running" /\ runs[1].pc = "generate_answer"
    /\ runs[2].status = "done"
    /\ Len(store["thread-1"].messages) = 1
    /\ Len(store[uuid4(2)].messages) = 2

\* ------------------------------------------------- state merging: claims
\* C26: messages only grows: across every node transition and across
\* successive runs on a thread the earlier messages stay a prefix of the
\* later ones; a new run starts from the persisted messages plus the new
\* human message, and each completed run has added exactly one assistant
\* message to them.
C26_MessagesGrow ==
    [][ /\ IsPrefix(state.messages, state'.messages)
        /\ (status # "running" /\ status' = "running") =>
              /\ state'.messages = Append(state.messages, HumanMessage)
              /\ msgs0' = state'.messages
        /\ (status = "running" /\ status' = "running") =>
              state'.messages = msgs0'
        /\ (status = "running" /\ status' = "done") =>
              /\ Len(state'.messages) = Len(msgs0') + 1
              /\ SubSeq(state'.messages, 1, Len(msgs0')) = msgs0'
              /\ Last(state'.messages).type = "ai"
      ]_vars

\* the second run on the thread completed
C26_Witness ==
    /\ run = 2 /\ status = "done"
    /\ Len(state.messages) = 4
    /\ state.messages[1].type = "human" /\ state.messages[2].type = "ai"
    /\ state.messages[3].type = "human" /\ state.messages[4].type = "ai"

\* a node returned and its delta was merged
NodeCompletes == status = "running" /\ trace' # trace

\* C27 as stated: after every node, each state field named in the node's
\* returned delta equals the returned value, messages included, and every
\* field not named in the delta is unchanged.
C27_DeltaReplaces ==
    [][ NodeCompletes =>
          \A k \in DOMAIN state' :
              IF Has(last_delta', k)
              THEN state'[k] = last_delta'[k]
              ELSE Has(state, k) /\ state'[k] = state[k]
      ]_vars

\* C27: after every node, each state field other than messages that is
\* named in the node's returned delta equals the returned value (sequence
\* fields are replaced wholesale, not appended to), messages, when named,
\* is the previous sequence followed by the returned messages, and every
\* field not named in the delta is unchanged.
C27_DeltaMerged ==
    [][ NodeCompletes =>
          /\ DOMAIN state' = DOMAIN state \cup DOMAIN last_delta'
          /\ \A k \in DOMAIN state' :
                IF ~Has(last_delta', k) THEN state'[k] = state[k]
                ELSE IF k = "messages"
                     THEN state'[k] = state[k] \o last_delta'[k]
                     ELSE state'[k] = last_delta'[k]
      ]_vars

\* the second report run ended: compile_report returned one message and four
\* cleared fields
C27_Witness ==
    /\ status = "done" /\ LastNode = "compile_report" /\ run = 2
    /\ DOMAIN last_delta =
          {"messages", "search_results", "outline", "current_idx", "section_drafts"}
    /\ Len(last_delta.messages) = 1
    /\ Len(state.messages) = 4
    /\ state.section_drafts = <<>> /\ last_delta.section_drafts = <<>>
    /\ Len(report_input) >= 1

\* C28: when a node fails with no defined fallback (the classifier or
\* planner response cannot be coerced to the expected shape, or a
\* completion or search call raises), the run aborts, nothing from the
\* failed node is merged, and the thread's persisted state equals the state
\* after the last node that completed.
C28_AbortKeepsState ==
    [][ (status = "running" /\ status' = "aborted") =>
          /\ state' = state
          /\ last_delta' = last_delta
          /\ pc' = pc /\ trace' = trace
          /\ state'.messages = msgs0'
      ]_vars

\* draft_section failed in the first report run: the results of the
\* search_section before it are persisted and no draft is
C28_Witness ==
    /\ status = "aborted" /\ pc = "draft_section" /\ run = 1
    /\ LastNode = "search_section"
    /\ Has(state, "search_results") /\ Len(state.search_results) >= 1
    /\ last_delta = [search_results |-> state.search_results]
    /\ ~Has(state, "section_drafts")

\* ------------------------------------------------ section search: claims
\* search_section made at least one search call and returned or raised
AfterSectionSearch ==
    /\ agent = "workflow" /\ search_calls >= 1
    /\ \/ LastNode = "search_section" /\ status = "running"
       \/ status = "aborted" /\ pc = "search_section"

\* C29: within one search_section invocation the search service is invoked
\* again only if the preceding attempt returned an empty list or the
\* no-result sentinel; as soon as an attempt returns a usable result no
\* further search is made, and that attempt's results are the ones
\* normalized, enriched and returned.
C29_RetryOnlyAfterNoGood ==
    AfterSectionSearch =>
        /\ last_search.earlier_nogood
        /\ last_search.resp = last_search.attempt
        /\ (status = "running" /\ ~NoGood(last_search.attempt)) =>
              /\ Has(state, "search_results")
              /\ state.search_results =
                    _sync_crawl_urls(last_search.attempt.items, last_search.crawl)

\* the first attempt returned nothing usable, the second returned two items
C29_Witness ==
    /\ AfterSectionSearch /\ status = "running"
    /\ search_calls = 2
    /\ last_search.attempt.kind = "list" /\ Len(last_search.attempt.items) = 2
    /\ Len(state.search_results) = 2
    /\ state.search_results[2].index = 2

\* C30: whenever search_section or draft_section executes,
\* 0 <= current_idx < len(outline), so outline[current_idx] is defined; this
\* holds for every outline the planner can return, the empty outline
\* included.
C30_IndexInRange ==
    (agent = "workflow" /\ status = "running"
        /\ pc \in {"search_section", "draft_section"}) =>
        /\ Has(state, "outline") /\ Has(state, "current_idx")
        /\ 0 <= state.current_idx
        /\ state.current_idx < Len(state.outline)

\* ------------------------------------------------- simple search: claims
\* run_search made its search call and the search service answered
AfterAnsweredSimpleSearch ==
    /\ agent = "simple" /\ search_calls = 1
    /\ last_search.resp.kind \in {"list", "sentinel"}
    /\ \/ LastNode = "run_search"
       \/ status = "aborted" /\ pc = "run_search"

\* C31: for every response the search service can return (a non-empty list
\* of items, an empty list, or the no-result sentinel), run_search completes
\* without error and returns at least one SearchResult.
C31_RunSearchTotal ==
    AfterAnsweredSimpleSearch =>
        /\ ~(status = "aborted" /\ pc = "run_search")
        /\ LastNode = "run_search"
        /\ Has(state, "search_results")
        /\ Len(state.search_results) >= 1

\* C32: whenever run_search or search_section starts, on any thread and
\* after any history of earlier runs on it (completed or aborted),
\* search_results is empty or not yet set.
C32_EmptyBeforeSearch ==
    (status = "running" /\ pc \in {"run_search", "search_section"}) =>
        Get(state, "search_results", <<>>) = <<>>

\* ------------------------------------------------------ liveness: claims
\* C33: every run of either graph reaches the terminal node after finitely
\* many node executions provided every external call returns; the section
\* loop of the report graph cannot repeat indefinitely.
C33_RunsTerminate ==
    \A n \in 1..MaxRuns :
        (run = n /\ status = "running")
            ~> (run = n /\ (status = "done" \/ failed_call))

\* ----------------------------------------------- retries and calls: claims
\* C34: the retry counter is local to one search_section invocation and
\* starts at 0 for every section: a report run over an outline of n sections
\* makes at most 3*n search-service calls, and retries spent on one section
\* never reduce the attempts available to a later section.
C34_RetriesPerSection ==
    agent = "workflow" =>
        /\ run_calls <= (1 + max_retries) * Len(planned)
        /\ (LastNode = "search_section" /\ status = "running") =>
              /\ run_calls <= (1 + max_retries) * (state.current_idx + 1)
              /\ search_calls < 1 + max_retries => ~NoGood(last_search.attempt)
              /\ all_nogood => search_calls = 1 + max_retries

\* both sections of an outline used all three attempts
C34_Witness ==
    /\ agent = "workflow" /\ LastNode = "search_section" /\ status = "running"
    /\ Len(planned) = 2 /\ state.current_idx = 1
    /\ all_nogood /\ search_calls = 3
    /\ run_calls = 6

\* run_search sent its query to the search service and returned or raised
AfterSimpleSearchCall ==
    /\ agent = "simple" /\ last_search # NoSearch
    /\ \/ LastNode = "run_search"
       \/ status = "aborted" /\ pc = "run_search"

C36_RetryPrompts ==
    AfterSectionSearch =>
        /\ Len(last_search.prompts) = search_calls - 1
        /\ \A k \in 1..Len(last_search.prompts) :
              /\ last_search.prompts[k].retry_attempt = k
              /\ last_search.prompts[k].of = max_retries
              /\ last_search.prompts[k].previous_query = SearchQuery(k - 1)

\* a section searched three times: the original query and both retries
C36_Witness ==
    /\ AfterSectionSearch /\ status = "running"
    /\ search_calls = 3
    /\ Len(last_search.prompts) = 2
    /\ last_search.prompts[1].previous_query = "query 0"
    /\ last_search.prompts[2].previous_query = "query 1"
    /\ last_search.prompts[2].retry_attempt = 2

\* ------------------------------------------------------- drafting: claims
\* draft_section returned and its delta was merged
DraftSectionCompletes ==
    agent = "workflow" /\ pc = "draft_section" /\ NodeCompletes

\* the draft the completion service writes for the i-th section of the
\* outline in the current run
DraftFor(i) == [title |-> state.outline[i], run |-> run]

\* section_drafts after draft_section is the sequence before it with one new
\* draft at the end
OneDraftAppended ==
    /\ Has(last_delta', "section_drafts")
    /\ state'.section_drafts = last_delta'.section_drafts
    /\ Len(state'.section_drafts) = Len(Get(state, "section_drafts", <<>>)) + 1
    /\ IsPrefix(Get(state, "section_drafts", <<>>), state'.section_drafts)
    /\ Last(state'.section_drafts) = DraftFor(state.current_idx + 1)

\* C37: draft_section returns section_drafts equal to the previous sequence
\* with exactly one new draft appended at the end (a one-element list when
\* section_drafts is absent from the state), leaving earlier drafts
\* unchanged and in order, so during a run the i-th draft is the one
\* written for outline[i].
C37_DraftsFollowOutline ==
    [][ DraftSectionCompletes =>
          /\ OneDraftAppended
          /\ \A i \in 1..Len(state'.section_drafts) :
                /\ i <= Len(state.outline)
                /\ state'.section_drafts[i] = DraftFor(i)
      ]_vars

\* ------------------------------------------------ result content: claims
\* a search node has just stored its batch
AfterSearchNode ==
    /\ LastNode \in {"run_search", "search_section"}
    /\ Has(state, "search_results")

\* the page-content fetch for the i-th stored result was made and succeeded
FetchSucceeded(i) ==
    /\ agent = "workflow"
    /\ last_search.resp.kind = "list"
    /\ i <= Len(SearchedItems) /\ i <= Len(last_search.crawl)
    /\ SearchedItems[i].link # ""
    /\ last_search.crawl[i] = "ok"

HumanOrAi(msg) ==
    /\ msg.shape = "mapping"
    /\ Get(msg.fields, "type", "human") \in {"human", "ai"}

\* the parsed form of such a message
ParsedMessage(msg) ==
    [content |-> msg.fields.content,
     type    |-> Get(msg.fields, "type", "human"),
     id      |-> msg.fields.id,
     name    |-> NoneValue]

\* C39: the messages of a parsed history step are exactly the snapshot's
\* mapping-shaped messages whose type is human or ai (a missing type counts
\* as human), in their original order; messages of any other type, tool and
\* custom included, and messages that are not mappings are left out.
C39_ParsedMessages ==
    parser_pc = "returned" =>
        LET expected == SelectSeq(Chronological, WellFormed) IN
        /\ Len(parsed.steps) = Len(expected)
        /\ \A k \in 1..Len(parsed.steps) :
              LET kept == SelectSeq(expected[k][1].fields.messages, HumanOrAi) IN
              /\ parsed.steps[k].messages =
                    [i \in 1..Len(kept) |-> ParsedMessage(kept[i])]
              /\ \A i \in 1..Len(parsed.steps[k].messages) :
                    parsed.steps[k].messages[i].type \in {"human", "ai"}

\* a snapshot with a human message, a custom message and a message without
\* a type: the first and the third are returned, both as human
C39_Witness ==
    /\ parser_pc = "returned"
    /\ Len(raw_history) >= 1 /\ WellFormed(raw_history[1])
    /\ Len(raw_history[1][1].fields.messages) = 3
    /\ raw_history[1][1].fields.messages[2].shape = "mapping"
    /\ Get(raw_history[1][1].fields.messages[2].fields, "type", "") = "custom"
    /\ raw_history[1][1].fields.messages[3].shape = "mapping"
    /\ ~Has(raw_history[1][1].fields.messages[3].fields, "type")
    /\ Len(Last(parsed.steps).messages) = 2
    /\ Last(parsed.steps).messages[2].type = "human"
    /\ Last(parsed.steps).messages[2].id = "msg-3"

\* ------------------------------------------------ step numbering: claims
\* the position in the chronological input of the entry a step was made from
\* (the snapshots of a history are told apart by current_idx)
PositionOf(step) ==
    CHOOSE j \in 1..Len(Chronological) :
        Chronological[j][1].fields.current_idx = step.current_idx

\* C40: in every result of parse_state_history, total_steps equals the number
\* of returned steps, step_number is strictly increasing along the list, and
\* each step's step_number is the chronological position of its snapshot in
\* the full input counting skipped entries, so a skipped entry leaves a gap
\* in the numbering instead of renumbering the later steps.
C40_StepNumbering ==
    parser_pc = "returned" =>
        /\ parsed.total_steps = Len(parsed.steps)
        /\ \A k \in 1..Len(parsed.steps) :
              /\ k > 1 => parsed.steps[k - 1].step_number < parsed.steps[k].step_number
              /\ \E j \in 1..Len(Chronological) :
                    Chronological[j][1].fields.current_idx = parsed.steps[k].current_idx
              /\ parsed.steps[k].step_number = PositionOf(parsed.steps[k]) - 1

\* three snapshots of which the second oldest is skipped: the two returned
\* steps are numbered 0 and 2
C40_Witness ==
    /\ parser_pc = "returned"
    /\ Len(raw_history) = 3
    /\ ~WellFormed(Chronological[2])
    /\ parsed.total_steps = 2
    /\ Len(parsed.steps) = 2
    /\ parsed.steps[1].step_number = 0
    /\ parsed.steps[2].step_number = 2

====
